---- MODULE Spec2Model ----
(***************************************************************************)
(* A model of the home-monitor scripts that talk to a Philips Hue bridge:  *)
(*   lounge_color_loop.py       the command line and color_loop            *)
(*   sensor_activity.py         get_time_ago and list_sensor_activity      *)
(*   simplify_office_dimmer.py, simplify_office_v2.py,                     *)
(*   update_outdoor_automation.py   the one-shot configuration pushers     *)
(* Every script is its own process, so each has its own specification over *)
(* its own variables; the variables of the other scripts stay idle.        *)
(*                                                                         *)
(* Strings that the code parses (command-line arguments, timestamps) are   *)
(* sequences of one-character strings; text that is only printed is a TLA+ *)
(* string.  Time is counted in tenths of a second in the color loop (speed  *)
(* is a float with one decimal).                                           *)
(***************************************************************************)
EXTENDS Integers, Sequences, FiniteSets, TLC

VARIABLES
    \* ---- lounge_color_loop.py
    pc,                \* position of the script
    argv,              \* sys.argv[1:], each argument a sequence of characters
    speed,             \* __main__: speed, in tenths of a second
    duration,          \* __main__: duration, whole seconds or None
    duration_seconds,  \* color_loop parameter
    loop_speed,        \* color_loop parameter speed, tenths (0 until bound)
    start_time,        \* color_loop: start_time (clock reading; 0 until bound)
    clock,             \* time.time(), tenths of a second
    hue,               \* color_loop: hue (0 until bound)
    light_idx,         \* position of the for loop in LOUNGE_COLOR_LIGHTS
    ticks,             \* completed passes of the while loop
    nreq,              \* number of PUT .../state requests issued
    last_req,          \* the last request issued (light and payload) or None
    sent,              \* per light: the hue of the last request sent to it
    http_failed,       \* some request so far has failed
    fault,             \* the exception that ended the process, or NoFault
    signal,            \* a KeyboardInterrupt has been delivered
    out,               \* the set of lines printed (color lines excepted)
    color_line,        \* the last "Color: <name> (hue: <h>)" line, as <<name, h>>
    \* ---- get_color_name called on its own
    gcn_hue,           \* the argument hue
    gcn_ret,           \* the value returned, or None before the call
    \* ---- sensor_activity.py, get_time_ago called on its own
    timestamp_str,     \* the argument, a sequence of characters
    now,               \* datetime.now(timezone.utc): [secs, tenths] since 1970
    time_ago,          \* the outcome of the call, or None before it
    ts_elapsed,        \* tenths of a second from the instant the argument was
                       \* written for to now, or None when it was written for none
    \* ---- sensor_activity.py, list_sensor_activity
    sa_pc,             \* position of the function
    sensors,           \* the bridge's answer: the sensor records, in order
    group_idx,         \* position of the grouping loop in sensors
    motion_sensors,    \* the four lists of sensor_data
    temperature_sensors,
    dimmer_switches,
    other_sensors,
    print_idx,         \* position of the printing loop in its list
    report,            \* the sensors printed so far: section, id, type, time_ago
    sa_fault,          \* the exception that ended the function, or NoFault
    \* ---- the configuration pushers
    script,            \* which of the three scripts runs
    push_pc,           \* position of the script
    puts,              \* number of requests.put calls made
    response,          \* the response received, or None
    push_out,          \* what the script has printed about the outcome, in order
    push_fault,        \* the exception that ended the script, or NoFault
    \* ---- list_lights.py
    ll_pc,             \* position of the script
    ll_argv,           \* sys.argv[1:], each argument a string
    username,          \* the username handed to list_lights, or None
    usage_printed,     \* TRUE once the usage text has been printed
    posts,             \* number of POST /api requests made (create_user)
    gets,              \* the usernames of the GET /api/<username>/lights requests, in order
    lights,            \* the bridge's answer as a sequence of light records
    light_pos,         \* index of the light the for loop prints next
    ll_out,            \* the light blocks printed, in order
    ll_fault           \* the exception that ended the script, or NoFault

loopVars == <<pc, argv, speed, duration, duration_seconds, loop_speed, start_time,
              clock, hue, light_idx, ticks, nreq, last_req, sent, http_failed,
              fault, signal, out, color_line>>

colorVars == <<gcn_hue, gcn_ret>>
agoVars == <<timestamp_str, now, time_ago, ts_elapsed>>

sensorVars == <<sa_pc, sensors, group_idx, motion_sensors, temperature_sensors,
                dimmer_switches, other_sensors, print_idx, report, sa_fault>>

pushVars == <<script, push_pc, puts, response, push_out, push_fault>>

lightsVars == <<ll_pc, ll_argv, username, usage_printed, posts, gets, lights,
                light_pos, ll_out, ll_fault>>

vars == <<loopVars, colorVars, agoVars, sensorVars, pushVars, lightsVars>>

otherThanLoop == <<colorVars, agoVars, sensorVars, pushVars, lightsVars>>

\* Python's None and an optional value: None is the empty sequence, a value v
\* is <<v>>.
None == <<>>
Some(v) == <<v>>
Val(o) == o[1]
NoFault == "None"

(***************************************************************************)
(* Bounds of the model.                                                    *)
(***************************************************************************)
\* The while loop of color_loop is cut after this many passes.
MaxTicks == 14
\* A request takes between 0 and MaxLatency tenths of a second.
MaxLatency == 1
\* Timestamps are drawn from the first MaxDay days of January 2025.
MaxDay == 3
\* The bridge answers with at most MaxSensors sensors.
MaxSensors == 2
\* The body of a response to a configuration push has at most MaxBodyLen characters.
MaxBodyLen == 502

(***************************************************************************)
(* Program constants of lounge_color_loop.py.                              *)
(***************************************************************************)
LOUNGE_COLOR_LIGHTS == <<9, 12>>
DEFAULT_SPEED == 2
HUE_STEP == 5000
HUE_MODULUS == 65535
SATURATION == 254
BRIGHTNESS == 254
TRANSITIONTIME == 10

Lights == {LOUNGE_COLOR_LIGHTS[i] : i \in 1..Len(LOUNGE_COLOR_LIGHTS)}

\* n seconds in the unit of the clock (tenths of a second).
Seconds(n) == n * 10

(***************************************************************************)
(* Parsing of command-line arguments: float(s) and int(s) on the strings   *)
(* made of digits, signs, dots and other characters.                       *)
(***************************************************************************)
Digits == {"0", "1", "2", "3", "4", "5", "6", "7", "8", "9"}

DigitVal(c) ==
    CASE c = "0" -> 0 [] c = "1" -> 1 [] c = "2" -> 2 [] c = "3" -> 3 [] c = "4" -> 4
      [] c = "5" -> 5 [] c = "6" -> 6 [] c = "7" -> 7 [] c = "8" -> 8 [] c = "9" -> 9

AllDigits(s) == \A i \in 1..Len(s) : s[i] \in Digits

RECURSIVE NatValue(_)
NatValue(s) ==
    IF s = <<>> THEN 0
    ELSE NatValue(SubSeq(s, 1, Len(s) - 1)) * 10 + DigitVal(s[Len(s)])

HasSign(s) == Len(s) > 0 /\ s[1] \in {"-", "+"}
Unsigned(s) == IF HasSign(s) THEN Tail(s) ELSE s
SignOf(s) == IF Len(s) > 0 /\ s[1] = "-" THEN -1 ELSE 1

\* int(s): an optional sign and at least one digit; anything else is a ValueError.
IntParses(s) == Len(Unsigned(s)) > 0 /\ AllDigits(Unsigned(s))
IntValue(s) == SignOf(s) * NatValue(Unsigned(s))

\* The position of the first "." of s, or 0.
DotAt(s) ==
    IF \E i \in 1..Len(s) : s[i] = "."
    THEN CHOOSE i \in 1..Len(s) : s[i] = "." /\ \A j \in 1..(i - 1) : s[j] # "."
    ELSE 0

IntPart(s) == IF DotAt(s) = 0 THEN s ELSE SubSeq(s, 1, DotAt(s) - 1)
FracPart(s) == IF DotAt(s) = 0 THEN <<>> ELSE SubSeq(s, DotAt(s) + 1, Len(s))

\* float(s): an optional sign, digits with at most one "." among them and at
\* least one digit; anything else is a ValueError.  (Exponents, "inf" and "nan"
\* are outside the alphabet of the arguments drawn here.)
FloatParses(s) ==
    LET u == Unsigned(s) IN
    /\ AllDigits(IntPart(u))
    /\ AllDigits(FracPart(u))
    /\ Len(IntPart(u)) + Len(FracPart(u)) > 0

\* The value of float(s) in tenths; the arguments drawn have at most one decimal.
FloatTenths(s) ==
    LET u == Unsigned(s)
        f == FracPart(u)
    IN  SignOf(s) * (NatValue(IntPart(u)) * 10 + (IF f = <<>> THEN 0 ELSE DigitVal(f[1])))

\* The arguments the command line is run with.
SpeedArgs == { <<"1">>, <<"0", ".", "5">>, <<"f", "a", "s", "t">>, <<"-", "1">> }
DurationArgs == { <<"0">>, <<"-", "3">>, <<"1">>, <<"3">>, <<"1", ".", "5">>, <<"x">> }
ArgvSet ==
    {<<>>} \cup {<<s>> : s \in SpeedArgs}
           \cup {<<s, d>> : s \in SpeedArgs, d \in DurationArgs}

(***************************************************************************)
(* Pure functions of lounge_color_loop.py.                                 *)
(***************************************************************************)
\* get_color_name with <= at the first threshold.
get_color_name_le(h) ==
    IF h <= 3000 THEN "Red"
    ELSE IF h < 8000 THEN "Orange"
    ELSE IF h < 16000 THEN "Yellow"
    ELSE IF h < 30000 THEN "Green"
    ELSE IF h < 40000 THEN "Cyan"
    ELSE IF h < 48000 THEN "Blue"
    ELSE IF h < 54000 THEN "Purple"
    ELSE "Pink"

get_color_name(h) ==
    IF h < 3000 THEN "Red"
    ELSE IF h < 8000 THEN "Orange"
    ELSE IF h < 16000 THEN "Yellow"
    ELSE IF h < 30000 THEN "Green"
    ELSE IF h < 40000 THEN "Cyan"
    ELSE IF h < 48000 THEN "Blue"
    ELSE IF h < 54000 THEN "Purple"
    ELSE "Pink"

\* next_hue with the modulus of a 16-bit counter (65536) instead of 65535.
next_hue_mod65536(h) == (h + HUE_STEP) % (HUE_MODULUS + 1)

next_hue(h) == (h + HUE_STEP) % HUE_MODULUS

\* Python's truth value of an int-or-None.
Truthy(v) == v # None /\ Val(v) # 0

\* The payload of set_light_color, with the light it goes to.
StatePut(light, h) ==
    [light |-> light, on |-> TRUE, hue |-> h, sat |-> SATURATION,
     bri |-> BRIGHTNESS, transitiontime |-> TRANSITIONTIME]

\* The outcomes of requests.put(...) followed by response.json(): the bridge
\* answers with a success body, answers with an error body (returned to the
\* caller like any other body), or the call raises (connection failure, a body
\* that is not JSON).
PutOutcomes == {"ok", "error", "raise"}

(***************************************************************************)
(* lounge_color_loop.py, __main__ and color_loop.                          *)
(***************************************************************************)
MsgBadSpeed == "Invalid speed value. Using default: 2 seconds"
MsgBadDuration == "Invalid duration value. Running forever."
MsgForever == "Duration: Forever (press Ctrl+C to stop)"
MsgDurationReached == "Duration reached. Stopping color loop."
MsgStopped == "Color loop stopped by user."
MsgRemain == "Lights will remain at their current color."
MsgDuration(d) == "Duration: " \o ToString(d) \o " seconds"

LoopInit ==
    /\ pc = "parse_speed"
    /\ argv \in ArgvSet
    /\ speed = Seconds(DEFAULT_SPEED)
    /\ duration = None
    /\ duration_seconds = None
    /\ loop_speed = 0
    /\ start_time = 0
    /\ clock = 0
    /\ hue = 0
    /\ light_idx = 0
    /\ ticks = 0
    /\ nreq = 0
    /\ last_req = None
    /\ sent = [l \in Lights |-> None]
    /\ http_failed = FALSE
    /\ fault = NoFault
    /\ signal = FALSE
    /\ out = {}
    /\ color_line = None

\* if len(sys.argv) > 1: try: speed = float(sys.argv[1]) except ValueError: print
ParseSpeed ==
    /\ pc = "parse_speed"
    /\ pc' = "parse_duration"
    /\ IF Len(argv) > 0
       THEN IF FloatParses(argv[1])
            THEN speed' = FloatTenths(argv[1]) /\ out' = out
            ELSE speed' = speed /\ out' = out \cup {MsgBadSpeed}
       ELSE speed' = speed /\ out' = out
    /\ UNCHANGED <<argv, duration, duration_seconds, loop_speed, start_time, clock,
                   hue, light_idx, ticks, nreq, last_req, sent, http_failed, fault,
                   signal, color_line>>
    /\ UNCHANGED otherThanLoop

\* ParseDuration without the except clause: the ValueError of int() ends the process.
ParseDuration_uncaught ==
    /\ pc = "parse_duration"
    /\ IF Len(argv) > 1
       THEN IF IntParses(argv[2])
            THEN duration' = Some(IntValue(argv[2])) /\ pc' = "start" /\ fault' = fault
            ELSE duration' = duration /\ pc' = "aborted" /\ fault' = "parse"
       ELSE duration' = duration /\ pc' = "start" /\ fault' = fault
    /\ UNCHANGED <<argv, speed, duration_seconds, loop_speed, start_time, clock,
                   hue, light_idx, ticks, nreq, last_req, sent, http_failed,
                   signal, out, color_line>>
    /\ UNCHANGED otherThanLoop

\* if len(sys.argv) > 2: try: duration = int(sys.argv[2]) except ValueError: print
ParseDuration ==
    /\ pc = "parse_duration"
    /\ pc' = "start"
    /\ IF Len(argv) > 1
       THEN IF IntParses(argv[2])
            THEN duration' = Some(IntValue(argv[2])) /\ out' = out
            ELSE duration' = duration /\ out' = out \cup {MsgBadDuration}
       ELSE duration' = duration /\ out' = out
    /\ UNCHANGED <<argv, speed, duration_seconds, loop_speed, start_time, clock,
                   hue, light_idx, ticks, nreq, last_req, sent, http_failed, fault,
                   signal, color_line>>
    /\ UNCHANGED otherThanLoop

\* color_loop(duration_seconds=duration, speed=speed), up to the try statement.
StartLoop ==
    /\ pc = "start"
    /\ pc' = "check"
    /\ duration_seconds' = duration
    /\ loop_speed' = speed
    /\ out' = out \cup {IF Truthy(duration) THEN MsgDuration(Val(duration)) ELSE MsgForever}
    /\ start_time' = clock
    /\ hue' = 0
    /\ UNCHANGED <<argv, speed, duration, clock, light_idx, ticks, nreq, last_req,
                   sent, http_failed, fault, signal, color_line>>
    /\ UNCHANGED otherThanLoop

\* The elapsed-time check with >= in place of >.
DurationExceeded_ge ==
    Truthy(duration_seconds) /\ (clock - start_time) >= Seconds(Val(duration_seconds))

\* The elapsed-time check at the head of the while loop.
DurationExceeded ==
    Truthy(duration_seconds) /\ (clock - start_time) > Seconds(Val(duration_seconds))

CheckDuration ==
    /\ pc = "check"
    /\ IF DurationExceeded
       THEN /\ pc' = "finished"
            /\ out' = out \cup {MsgDurationReached}
            /\ light_idx' = light_idx
       ELSE /\ ticks < MaxTicks
            /\ pc' = "put"
            /\ light_idx' = 1
            /\ out' = out
    /\ UNCHANGED <<argv, speed, duration, duration_seconds, loop_speed, start_time,
                   clock, hue, ticks, nreq, last_req, sent, http_failed, fault,
                   signal, color_line>>
    /\ UNCHANGED otherThanLoop

\* One pass of the for loop: set_light_color(light_id, hue, ...).  Its return
\* value is dropped; an exception it raises is caught nowhere.
SetLightColor ==
    /\ pc = "put"
    /\ \E outcome \in PutOutcomes, latency \in 0..MaxLatency :
        LET light == LOUNGE_COLOR_LIGHTS[light_idx] IN
        /\ nreq' = nreq + 1
        /\ last_req' = Some(StatePut(light, hue))
        /\ sent' = [sent EXCEPT ![light] = Some(hue)]
        /\ clock' = clock + latency
        /\ http_failed' = (http_failed \/ outcome # "ok")
        /\ IF outcome = "raise"
           THEN pc' = "aborted" /\ fault' = "http" /\ light_idx' = light_idx
           ELSE /\ fault' = fault
                /\ IF light_idx < Len(LOUNGE_COLOR_LIGHTS)
                   THEN pc' = "put" /\ light_idx' = light_idx + 1
                   ELSE pc' = "print" /\ light_idx' = light_idx
    /\ UNCHANGED <<argv, speed, duration, duration_seconds, loop_speed, start_time,
                   hue, ticks, signal, out, color_line>>
    /\ UNCHANGED otherThanLoop

\* color_name = get_color_name(hue); print; hue = (hue + 5000) % 65535
PrintColor ==
    /\ pc = "print"
    /\ pc' = "sleep"
    /\ color_line' = <<get_color_name(hue), hue>>
    /\ hue' = next_hue(hue)
    /\ ticks' = ticks + 1
    /\ UNCHANGED <<argv, speed, duration, duration_seconds, loop_speed, start_time,
                   clock, light_idx, nreq, last_req, sent, http_failed, fault,
                   signal, out>>
    /\ UNCHANGED otherThanLoop

\* time.sleep(speed); a negative length raises ValueError.
Sleep ==
    /\ pc = "sleep"
    /\ IF loop_speed < 0
       THEN pc' = "aborted" /\ fault' = "sleep" /\ clock' = clock
       ELSE pc' = "check" /\ fault' = fault /\ clock' = clock + loop_speed
    /\ UNCHANGED <<argv, speed, duration, duration_seconds, loop_speed, start_time,
                   hue, light_idx, ticks, nreq, last_req, sent, http_failed,
                   signal, out, color_line>>
    /\ UNCHANGED otherThanLoop

\* The positions inside the try statement of color_loop.
InTry == {"check", "put", "print", "sleep"}
Running == {"parse_speed", "parse_duration", "start"} \cup InTry

\* KeyboardInterrupt with the try statement inside the while loop: the handler
\* prints and the loop goes on.
KeyboardInterrupt_inside_loop ==
    /\ pc \in Running
    /\ ~signal
    /\ signal' = TRUE
    /\ IF pc \in InTry
       THEN pc' = "sleep" /\ fault' = fault /\ out' = out \cup {MsgStopped, MsgRemain}
       ELSE pc' = "aborted" /\ fault' = "interrupt" /\ out' = out
    /\ UNCHANGED <<argv, speed, duration, duration_seconds, loop_speed, start_time,
                   clock, hue, light_idx, ticks, nreq, last_req, sent, http_failed,
                   color_line>>
    /\ UNCHANGED otherThanLoop

\* A KeyboardInterrupt is delivered: inside the try statement the handler prints
\* and color_loop returns; anywhere else it ends the process.
KeyboardInterrupt ==
    /\ pc \in Running
    /\ signal' = TRUE
    /\ IF pc \in InTry
       THEN pc' = "stopped" /\ fault' = fault /\ out' = out \cup {MsgStopped, MsgRemain}
       ELSE pc' = "aborted" /\ fault' = "interrupt" /\ out' = out
    /\ UNCHANGED <<argv, speed, duration, duration_seconds, loop_speed, start_time,
                   clock, hue, light_idx, ticks, nreq, last_req, sent, http_failed,
                   color_line>>
    /\ UNCHANGED otherThanLoop

LoopNext ==
    \/ ParseSpeed
    \/ ParseDuration
    \/ StartLoop
    \/ CheckDuration
    \/ SetLightColor
    \/ PrintColor
    \/ Sleep
    \/ KeyboardInterrupt

\* The script is not running.
LoopIdle ==
    /\ pc = "idle" /\ argv = <<>> /\ speed = 0 /\ duration = None
    /\ duration_seconds = None /\ loop_speed = 0 /\ start_time = 0 /\ clock = 0
    /\ hue = 0 /\ light_idx = 0 /\ ticks = 0 /\ nreq = 0 /\ last_req = None
    /\ sent = [l \in Lights |-> None] /\ http_failed = FALSE /\ fault = NoFault
    /\ signal = FALSE /\ out = {} /\ color_line = None

(***************************************************************************)
(* get_color_name(hue) called on every hue of the color wheel.             *)
(***************************************************************************)
ColorIdle == gcn_hue = 0 /\ gcn_ret = None

ColorInit ==
    /\ gcn_hue \in 0..(HUE_MODULUS - 1)
    /\ gcn_ret = None

CallGetColorName ==
    /\ gcn_ret = None
    /\ gcn_ret' = Some(get_color_name(gcn_hue))
    /\ UNCHANGED <<gcn_hue, loopVars, agoVars, sensorVars, pushVars, lightsVars>>

(***************************************************************************)
(* sensor_activity.py: get_time_ago.                                       *)
(***************************************************************************)
\* What a call comes to: a value returned or an exception raised.
Returned(v) == [kind |-> "return", value |-> v]
Raised(e) == [kind |-> "raise", value |-> e]

\* The characters of s as one string.
RECURSIVE Text(_)
Text(s) == IF s = <<>> THEN "" ELSE Head(s) \o Text(Tail(s))

\* timestamp_str.replace('Z', '+00:00')
RECURSIVE ReplaceZ(_)
ReplaceZ(s) ==
    IF s = <<>> THEN <<>>
    ELSE (IF Head(s) = "Z" THEN <<"+", "0", "0", ":", "0", "0">> ELSE <<Head(s)>>)
         \o ReplaceZ(Tail(s))

IsLeap(y) == (y % 4 = 0 /\ y % 100 # 0) \/ y % 400 = 0

DaysInMonth(y, m) ==
    IF m = 2 THEN (IF IsLeap(y) THEN 29 ELSE 28)
    ELSE IF m \in {4, 6, 9, 11} THEN 30 ELSE 31

\* The number of days from 1970-01-01 to the date y-m-d of the proleptic
\* Gregorian calendar (what the subtraction of two datetimes counts).
DaysFromCivil(y, m, d) ==
    LET yy == IF m <= 2 THEN y - 1 ELSE y
        era == yy \div 400
        yoe == yy - era * 400
        mp == IF m > 2 THEN m - 3 ELSE m + 9
        doy == (153 * mp + 2) \div 5 + d - 1
        doe == yoe * 365 + yoe \div 4 - yoe \div 100 + doy
    IN  era * 146097 + doe - 719468

Field(s, i, j) == NatValue(SubSeq(s, i, j))

\* datetime.fromisoformat(s) on "YYYY-MM-DD?HH:MM:SS" with an optional UTC
\* offset "+HH:MM" or "-HH:MM": None for the ValueError, or the datetime as
\* [local: seconds from 1970-01-01T00:00:00 on its own clock, tz: the offset in
\* seconds or None for a naive datetime].  (Date-only strings, fractions of a
\* second and the other formats fromisoformat reads are not among the
\* timestamps drawn here.)
fromisoformat(s) ==
    LET shape ==
            /\ Len(s) \in {19, 25}
            /\ AllDigits(SubSeq(s, 1, 4)) /\ s[5] = "-"
            /\ AllDigits(SubSeq(s, 6, 7)) /\ s[8] = "-"
            /\ AllDigits(SubSeq(s, 9, 10))
            /\ AllDigits(SubSeq(s, 12, 13)) /\ s[14] = ":"
            /\ AllDigits(SubSeq(s, 15, 16)) /\ s[17] = ":"
            /\ AllDigits(SubSeq(s, 18, 19))
            /\ Len(s) = 25 =>
                 /\ s[20] \in {"+", "-"}
                 /\ AllDigits(SubSeq(s, 21, 22)) /\ s[23] = ":"
                 /\ AllDigits(SubSeq(s, 24, 25))
        year == Field(s, 1, 4)
        month == Field(s, 6, 7)
        day == Field(s, 9, 10)
        hour == Field(s, 12, 13)
        minute == Field(s, 15, 16)
        second == Field(s, 18, 19)
        offset == (IF s[20] = "-" THEN -1 ELSE 1)
                      * (Field(s, 21, 22) * 3600 + Field(s, 24, 25) * 60)
        inRange ==
            /\ year >= 1 /\ month \in 1..12 /\ day \in 1..DaysInMonth(year, month)
            /\ hour <= 23 /\ minute <= 59 /\ second <= 59
            /\ Len(s) = 25 => (Field(s, 21, 22) <= 23 /\ Field(s, 24, 25) <= 59)
    IN  IF shape /\ inRange
        THEN Some([local |-> DaysFromCivil(year, month, day) * 86400
                               + hour * 3600 + minute * 60 + second,
                   tz |-> IF Len(s) = 25 THEN Some(offset) ELSE None])
        ELSE None

\* if last_update.tzinfo is None: last_update = last_update.replace(tzinfo=utc);
\* the instant of the datetime, in seconds from 1970-01-01T00:00:00Z.
Instant(dt) == dt.local - (IF dt.tz = None THEN 0 ELSE Val(dt.tz))

\* Python's int(x) of the float a / b: truncation toward zero.
TruncDiv(a, b) == IF a >= 0 THEN a \div b ELSE -((-a) \div b)

\* seconds = int((now - last_update).total_seconds())
ElapsedSeconds(n, last) == TruncDiv((n.secs - last) * 10 + n.tenths, 10)

\* TimeAgoLabel with <= at the first boundary.
TimeAgoLabel_le60(seconds) ==
    IF seconds <= 60 THEN ToString(seconds) \o " seconds ago"
    ELSE IF seconds < 3600
    THEN LET minutes == seconds \div 60 IN
         ToString(minutes) \o " minute" \o (IF minutes # 1 THEN "s" ELSE "") \o " ago"
    ELSE IF seconds < 86400
    THEN LET hours == seconds \div 3600 IN
         ToString(hours) \o " hour" \o (IF hours # 1 THEN "s" ELSE "") \o " ago"
    ELSE LET days == seconds \div 86400 IN
         ToString(days) \o " day" \o (IF days # 1 THEN "s" ELSE "") \o " ago"

\* The if/elif chain of get_time_ago on the elapsed whole seconds.
TimeAgoLabel(seconds) ==
    IF seconds < 60 THEN ToString(seconds) \o " seconds ago"
    ELSE IF seconds < 3600
    THEN LET minutes == seconds \div 60 IN
         ToString(minutes) \o " minute" \o (IF minutes # 1 THEN "s" ELSE "") \o " ago"
    ELSE IF seconds < 86400
    THEN LET hours == seconds \div 3600 IN
         ToString(hours) \o " hour" \o (IF hours # 1 THEN "s" ELSE "") \o " ago"
    ELSE LET days == seconds \div 86400 IN
         ToString(days) \o " day" \o (IF days # 1 THEN "s" ELSE "") \o " ago"

NONE_STR == <<"n", "o", "n", "e">>

\* get_time_ago without its except clause.
get_time_ago_uncaught(ts, n) ==
    IF ts = NONE_STR \/ ts = <<>>
    THEN Returned("Never")
    ELSE LET last_update == fromisoformat(ReplaceZ(ts)) IN
         IF last_update = None
         THEN Raised("ValueError")
         ELSE Returned(TimeAgoLabel(ElapsedSeconds(n, Instant(Val(last_update)))))

get_time_ago(ts, n) ==
    IF ts = NONE_STR \/ ts = <<>>
    THEN Returned("Never")
    ELSE LET last_update == fromisoformat(ReplaceZ(ts)) IN
         IF last_update = None
         THEN Returned("Error parsing: " \o Text(ts))
         ELSE Returned(TimeAgoLabel(ElapsedSeconds(n, Instant(Val(last_update)))))

(***************************************************************************)
(* The timestamps get_time_ago is called on: the bridge's "lastupdated" of *)
(* an instant of January 2025, written with or without a UTC suffix; the   *)
(* sentinel and the empty string; strings that are no timestamp.           *)
(***************************************************************************)
DigitChar(d) == CHOOSE c \in Digits : DigitVal(c) = d
TwoDigits(n) == <<DigitChar(n \div 10), DigitChar(n % 10)>>

\* "2025-01-DDTHH:MM:SS"
Stamp(day, hour, minute, second) ==
    <<"2", "0", "2", "5", "-", "0", "1", "-">> \o TwoDigits(day) \o <<"T">>
        \o TwoDigits(hour) \o <<":">> \o TwoDigits(minute) \o <<":">> \o TwoDigits(second)

\* Seconds from 1970-01-01T00:00:00Z to that instant (2025-01-01 is day 20089).
StampSecs(day, hour, minute, second) ==
    (20089 + day - 1) * 86400 + hour * 3600 + minute * 60 + second

UtcSuffixes == { <<>>, <<"Z">>, <<"+", "0", "0", ":", "0", "0">> }
StampHours == {0, 1, 23}

\* The readings of the clock: 2025-01-03T01:00:00Z and half a second later.
NowSet == {[secs |-> StampSecs(3, 1, 0, 0), tenths |-> t] : t \in {0, 5}}

BadStamps == {
    <<"g", "a", "r", "b", "a", "g", "e">>,
    <<"2", "0", "2", "5", "-", "1", "3", "-", "0", "1", "T", "0", "0", ":", "0", "0", ":", "0", "0">>,
    <<"2", "0", "2", "5", "-", "0", "2", "-", "3", "0", "T", "1", "0", ":", "0", "0", ":", "0", "0">>,
    <<"2", "0", "2", "5", "-", "0", "1", "-", "3", "2", "T", "0", "0", ":", "0", "0", ":", "0", "0">>,
    <<"2", "0", "2", "5", "-", "0", "1", "-", "0", "2", "T", "0", "0", ":", "0", "0", ":", "0", "0", "Z", "Z">>,
    <<"2", "0", "2", "5", "-", "0", "1", "-", "0", "2", "T", "0", "0", ":", "6", "1", ":", "0", "0">>
}

AgoIdle ==
    /\ timestamp_str = <<>> /\ now = [secs |-> 0, tenths |-> 0]
    /\ time_ago = None /\ ts_elapsed = None

AgoInit ==
    /\ now \in NowSet
    /\ time_ago = None
    /\ \/ \E day \in 1..MaxDay, hour \in StampHours, minute \in 0..59, second \in 0..59,
             suffix \in UtcSuffixes :
            /\ timestamp_str = Stamp(day, hour, minute, second) \o suffix
            /\ ts_elapsed = Some((now.secs - StampSecs(day, hour, minute, second)) * 10
                                 + now.tenths)
       \/ /\ timestamp_str \in {NONE_STR, <<>>} \cup BadStamps
          /\ ts_elapsed = None

CallGetTimeAgo ==
    /\ time_ago = None
    /\ time_ago' = Some(get_time_ago(timestamp_str, now))
    /\ UNCHANGED <<timestamp_str, now, ts_elapsed, loopVars, colorVars, sensorVars, pushVars, lightsVars>>

(***************************************************************************)
(* sensor_activity.py: list_sensor_activity.  A sensor record is           *)
(* [id, type, lastupdated]: type is None when the record has no 'type',    *)
(* lastupdated is None when its state has no 'lastupdated'.  The fields    *)
(* that are only printed (name, presence, battery, ...) are left out.      *)
(***************************************************************************)
SensorTypes ==
    {"ZLLPresence", "ZLLTemperature", "ZLLLightLevel", "ZLLSwitch", "Daylight",
     "CLIPGenericStatus", "ZGPSwitch"}

\* 2025-01-03T00:58:30, ninety seconds before SensorNow.
RecentStamp == Stamp(3, 0, 58, 30)
SensorNow == [secs |-> StampSecs(3, 1, 0, 0), tenths |-> 5]

LastUpdatedSet ==
    {None, Some(NONE_STR), Some(RecentStamp), Some(<<"g", "a", "r", "b", "a", "g", "e">>),
     Some(<<"2", "0", "2", "5", "-", "1", "3", "-", "0", "1", "T", "0", "0", ":", "0", "0",
            ":", "0", "0">>)}

SensorRecords(id) ==
    [id : {id}, type : {None} \cup {Some(t) : t \in SensorTypes}, lastupdated : LastUpdatedSet]

\* The answers of the bridge: up to MaxSensors records, keyed "1", "2", ...
RECURSIVE SensorLists(_)
SensorLists(n) ==
    IF n = 0 THEN {<<>>}
    ELSE LET shorter == SensorLists(n - 1) IN
         shorter \cup {Append(l, r) : l \in {x \in shorter : Len(x) = n - 1},
                                      r \in SensorRecords(n)}

\* sensor_data of one record: .get('type', 'Unknown'), state.get('lastupdated', 'none')
SensorData(sensor_info) ==
    [id |-> sensor_info.id,
     type |-> IF sensor_info.type = None THEN "Unknown" ELSE Val(sensor_info.type),
     lastupdated |-> IF sensor_info.lastupdated = None THEN NONE_STR
                     ELSE Val(sensor_info.lastupdated)]

\* Bucket without the filter of the last elif.
Bucket_unfiltered(sensor_type) ==
    IF sensor_type = "ZLLPresence" THEN "motion"
    ELSE IF sensor_type = "ZLLTemperature" THEN "temperature"
    ELSE IF sensor_type = "ZLLLightLevel" THEN "temperature"
    ELSE IF sensor_type = "ZLLSwitch" THEN "switch"
    ELSE "other"

\* The if/elif chain that picks the list a sensor_data is appended to.
Bucket(sensor_type) ==
    IF sensor_type = "ZLLPresence" THEN "motion"
    ELSE IF sensor_type = "ZLLTemperature" THEN "temperature"
    ELSE IF sensor_type = "ZLLLightLevel" THEN "temperature"
    ELSE IF sensor_type = "ZLLSwitch" THEN "switch"
    ELSE IF sensor_type \notin {"Daylight", "CLIPGenericStatus"} THEN "other"
    ELSE "dropped"

SensorIdle ==
    /\ sa_pc = "idle" /\ sensors = <<>> /\ group_idx = 0
    /\ motion_sensors = <<>> /\ temperature_sensors = <<>>
    /\ dimmer_switches = <<>> /\ other_sensors = <<>>
    /\ print_idx = 0 /\ report = <<>> /\ sa_fault = NoFault

SensorInit ==
    /\ sa_pc = "fetch"
    /\ sensors \in SensorLists(MaxSensors)
    /\ group_idx = 0
    /\ motion_sensors = <<>> /\ temperature_sensors = <<>>
    /\ dimmer_switches = <<>> /\ other_sensors = <<>>
    /\ print_idx = 0 /\ report = <<>> /\ sa_fault = NoFault

\* requests.get, raise_for_status and json() inside the try statement: the
\* answer is the sensor map, or an exception is caught and the function
\* returns, or the body is JSON but no map (the bridge's error list) and
\* sensors.items() raises.
FetchSensors ==
    /\ sa_pc = "fetch"
    /\ \E outcome \in {"ok", "caught", "no_map"} :
        CASE outcome = "ok" -> sa_pc' = "group" /\ group_idx' = 1 /\ sa_fault' = sa_fault
          [] outcome = "caught" ->
                sa_pc' = "returned" /\ group_idx' = group_idx /\ sa_fault' = sa_fault
          [] outcome = "no_map" ->
                sa_pc' = "aborted" /\ group_idx' = group_idx /\ sa_fault' = "AttributeError"
    /\ UNCHANGED <<sensors, motion_sensors, temperature_sensors, dimmer_switches,
                   other_sensors, print_idx, report, loopVars, colorVars, agoVars, pushVars, lightsVars>>

\* One pass of `for sensor_id, sensor_info in sensors.items()`.
GroupSensor ==
    /\ sa_pc = "group"
    /\ IF group_idx <= Len(sensors)
       THEN LET sensor_data == SensorData(sensors[group_idx])
                b == Bucket(sensor_data.type)
            IN  /\ motion_sensors' =
                     IF b = "motion" THEN Append(motion_sensors, sensor_data)
                     ELSE motion_sensors
                /\ temperature_sensors' =
                     IF b = "temperature" THEN Append(temperature_sensors, sensor_data)
                     ELSE temperature_sensors
                /\ dimmer_switches' =
                     IF b = "switch" THEN Append(dimmer_switches, sensor_data)
                     ELSE dimmer_switches
                /\ other_sensors' =
                     IF b = "other" THEN Append(other_sensors, sensor_data)
                     ELSE other_sensors
                /\ group_idx' = group_idx + 1
                /\ UNCHANGED <<sa_pc, print_idx>>
       ELSE /\ sa_pc' = "motion"
            /\ print_idx' = 1
            /\ UNCHANGED <<group_idx, motion_sensors, temperature_sensors,
                           dimmer_switches, other_sensors>>
    /\ UNCHANGED <<sensors, report, sa_fault, loopVars, colorVars, agoVars, pushVars, lightsVars>>

\* One pass of the printing loop of a section, or the move to the next section:
\* time_ago = get_time_ago(sensor['lastupdated']) and the prints.
PrintSection(section, list, next) ==
    /\ sa_pc = section
    /\ IF print_idx <= Len(list)
       THEN LET sensor == list[print_idx]
                time_ago_ == get_time_ago(sensor.lastupdated, SensorNow)
            IN  IF time_ago_.kind = "raise"
                THEN /\ sa_pc' = "aborted"
                     /\ sa_fault' = time_ago_.value
                     /\ UNCHANGED <<print_idx, report>>
                ELSE /\ report' = Append(report,
                                    [section |-> section, id |-> sensor.id,
                                     type |-> sensor.type, time_ago |-> time_ago_.value])
                     /\ print_idx' = print_idx + 1
                     /\ UNCHANGED <<sa_pc, sa_fault>>
       ELSE /\ sa_pc' = next
            /\ print_idx' = 1
            /\ UNCHANGED <<report, sa_fault>>
    /\ UNCHANGED <<sensors, group_idx, motion_sensors, temperature_sensors,
                   dimmer_switches, other_sensors, loopVars, colorVars, agoVars,
                   pushVars, lightsVars>>

PrintMotion == PrintSection("motion", motion_sensors, "temperature")
PrintTemperature == PrintSection("temperature", temperature_sensors, "switch")
PrintSwitches == PrintSection("switch", dimmer_switches, "other")
PrintOther == PrintSection("other", other_sensors, "done")

SensorNext ==
    \/ FetchSensors
    \/ GroupSensor
    \/ PrintMotion
    \/ PrintTemperature
    \/ PrintSwitches
    \/ PrintOther

(***************************************************************************)
(* The configuration pushers simplify_office_dimmer.py,                    *)
(* simplify_office_v2.py and update_outdoor_automation.py: each builds its *)
(* payload, PUTs it and prints the outcome.  The body of a response is     *)
(* modelled by its length and by whether it is JSON.                       *)
(***************************************************************************)
Scripts == {"simplify_office_dimmer", "simplify_office_v2", "update_outdoor_automation"}

\* The responses of the bridge.
Statuses == {200, 201, 204, 400, 403, 404, 500, 503}
Responses == [status : Statuses, body_len : 0..MaxBodyLen, is_json : BOOLEAN]

\* simplify_office_v2.py prints response.text[:500].
BODY_SLICE == 500

\* IsSuccess taking every 2xx status for a success.
IsSuccess_2xx(status) == status \div 100 = 2

\* if response.status_code == 200
IsSuccess(status) == status = 200

\* The length of what the else branch prints of the body: response.text, and
\* response.text[:500] in simplify_office_v2.py.
PrintedBodyLen(scr, body_len) ==
    IF scr = "simplify_office_v2"
    THEN (IF body_len > BODY_SLICE THEN BODY_SLICE ELSE body_len)
    ELSE body_len

\* The scripts that print json.dumps(response.json()) after their success line.
PrintsEcho(scr) == scr \in {"simplify_office_dimmer", "update_outdoor_automation"}

PushIdle ==
    /\ script = "none" /\ push_pc = "idle" /\ puts = 0 /\ response = None
    /\ push_out = <<>> /\ push_fault = NoFault

PushInit ==
    /\ script \in Scripts
    /\ push_pc = "put"
    /\ puts = 0
    /\ response = None
    /\ push_out = <<>>
    /\ push_fault = NoFault

\* response = requests.put(url, headers=headers, json=payload, verify=False):
\* a response arrives, or the call raises and the script ends.
SendPut ==
    /\ push_pc = "put"
    /\ puts' = puts + 1
    /\ \/ \E r \in Responses :
            /\ response' = Some(r)
            /\ push_pc' = "report"
            /\ push_fault' = push_fault
       \/ /\ response' = response
          /\ push_pc' = "aborted"
          /\ push_fault' = "ConnectionError"
    /\ UNCHANGED <<script, push_out, loopVars, colorVars, agoVars, sensorVars, lightsVars>>

\* The if/else on response.status_code and its prints.
ReportPush ==
    /\ push_pc = "report"
    /\ LET r == Val(response) IN
       IF IsSuccess(r.status)
       THEN IF PrintsEcho(script)
            THEN IF r.is_json
                 THEN /\ push_out' = push_out \o <<[kind |-> "success"], [kind |-> "echo"]>>
                      /\ push_pc' = "done" /\ push_fault' = push_fault
                 ELSE /\ push_out' = Append(push_out, [kind |-> "success"])
                      /\ push_pc' = "aborted" /\ push_fault' = "JSONDecodeError"
            ELSE /\ push_out' = Append(push_out, [kind |-> "success"])
                 /\ push_pc' = "done" /\ push_fault' = push_fault
       ELSE /\ push_out' = Append(push_out,
                              [kind |-> "error", status |-> r.status,
                               text_len |-> PrintedBodyLen(script, r.body_len)])
            /\ push_pc' = "done" /\ push_fault' = push_fault
    /\ UNCHANGED <<script, puts, response, loopVars, colorVars, agoVars, sensorVars, lightsVars>>

PushNext ==
    \/ SendPut
    \/ ReportPush

(***************************************************************************)
(* list_lights.py: the script's entry point, create_user and list_lights.  *)
(***************************************************************************)
MaxLights == 2

\* Command lines: no argument, the argument the usage text names, a username
\* the bridge has issued, and two arguments.
CREATE == "create"
LightsArgvSet == {<<>>, <<CREATE>>, <<"YOUR_USERNAME">>, <<CREATE, "YOUR_USERNAME">>}

\* state.on and state.bri of a light as the bridge reports them.
BriSet == {0, 1, 127, 253, 254}
LightStates == [on : BOOLEAN, bri : BriSet]

RECURSIVE LightLists(_)
LightLists(n) ==
    IF n = 0 THEN {<<>>}
    ELSE LET shorter == LightLists(n - 1) IN
         shorter \cup {Append(l, r) : l \in {x \in shorter : Len(x) = n - 1},
                                      r \in LightStates}

LightMaps == LightLists(MaxLights)

\* What the GET can come to: a map of lights, a JSON answer that is no map
\* (the bridge's error list for a username it does not know), or no answer.
GetOutcomes == {"map", "error_list", "raise"}
\* What the POST can come to: [{"success": ...}], [{"error": ...}], no answer.
PostOutcomes == {"success", "error", "raise"}

\* status = "ON" if on else "OFF"
StatusText(on) == IF on THEN "ON" ELSE "OFF"

\* brightness = f"{int(bri/254*100)}%" if on else "N/A"
BrightnessText(on, bri) ==
    IF on THEN ToString((bri * 100) \div 254) \o "%" ELSE "N/A"

LightsIdle ==
    /\ ll_pc = "idle" /\ ll_argv = <<>> /\ username = None
    /\ usage_printed = FALSE /\ posts = 0 /\ gets = <<>> /\ lights = <<>>
    /\ light_pos = 0 /\ ll_out = <<>> /\ ll_fault = NoFault

LightsInit ==
    /\ ll_pc = "main"
    /\ ll_argv \in LightsArgvSet
    /\ username = None
    /\ usage_printed = FALSE
    /\ posts = 0
    /\ gets = <<>>
    /\ lights = <<>>
    /\ light_pos = 0
    /\ ll_out = <<>>
    /\ ll_fault = NoFault

\* create_user(): one POST /api; the answer is printed and the username it
\* may hold is returned to a caller that drops it.
create_user ==
    /\ posts' = posts + 1
    /\ \E outcome \in PostOutcomes :
         IF outcome = "raise"
         THEN ll_pc' = "aborted" /\ ll_fault' = "ConnectionError"
         ELSE ll_pc' = "done" /\ ll_fault' = ll_fault

\* The if/else under __main__. len(sys.argv) > 1 is Len(ll_argv) > 0: with
\* an argument the first one is the username of list_lights; without one the
\* usage text is printed and the test for "create" follows, inside the else.
Main ==
    /\ ll_pc = "main"
    /\ IF Len(ll_argv) > 0
       THEN /\ username' = Some(ll_argv[1])
            /\ ll_pc' = "get"
            /\ UNCHANGED <<usage_printed, posts, ll_fault>>
       ELSE /\ usage_printed' = TRUE
            /\ username' = username
            /\ IF Len(ll_argv) > 0 /\ ll_argv[1] = CREATE
               THEN create_user
               ELSE /\ ll_pc' = "done"
                    /\ UNCHANGED <<posts, ll_fault>>
    /\ UNCHANGED <<ll_argv, gets, lights, light_pos, ll_out>>
    /\ UNCHANGED <<loopVars, colorVars, agoVars, sensorVars, pushVars>>

\* list_lights up to the for loop: the GET, response.json(), the header.
\* lights.items() on an answer that is no map raises AttributeError.
GetLights ==
    /\ ll_pc = "get"
    /\ gets' = Append(gets, Val(username))
    /\ \E outcome \in GetOutcomes :
         CASE outcome = "map" ->
                \E m \in LightMaps :
                    /\ lights' = m
                    /\ light_pos' = 1
                    /\ ll_pc' = IF Len(m) = 0 THEN "done" ELSE "print"
                    /\ ll_fault' = ll_fault
           [] outcome = "error_list" ->
                /\ ll_pc' = "aborted"
                /\ ll_fault' = "AttributeError"
                /\ UNCHANGED <<lights, light_pos>>
           [] outcome = "raise" ->
                /\ ll_pc' = "aborted"
                /\ ll_fault' = "ConnectionError"
                /\ UNCHANGED <<lights, light_pos>>
    /\ UNCHANGED <<ll_argv, username, usage_printed, posts, ll_out>>
    /\ UNCHANGED <<loopVars, colorVars, agoVars, sensorVars, pushVars>>

\* One pass of the for loop: the block printed for a light.
PrintLight ==
    /\ ll_pc = "print"
    /\ LET l == lights[light_pos] IN
       ll_out' = Append(ll_out, [id |-> light_pos,
                                 status |-> StatusText(l.on),
                                 brightness |-> BrightnessText(l.on, l.bri)])
    /\ light_pos' = light_pos + 1
    /\ ll_pc' = IF light_pos = Len(lights) THEN "done" ELSE "print"
    /\ UNCHANGED <<ll_argv, username, usage_printed, posts, gets, lights, ll_fault>>
    /\ UNCHANGED <<loopVars, colorVars, agoVars, sensorVars, pushVars>>

LightsNext ==
    \/ Main
    \/ GetLights
    \/ PrintLight

(***************************************************************************)
(* The specifications, one per script or function.                         *)
(***************************************************************************)
Init == LoopInit /\ ColorIdle /\ AgoIdle /\ SensorIdle /\ PushIdle /\ LightsIdle
Next == LoopNext
Spec == Init /\ [][Next]_vars

\* The statements of the script run one after another: a step that is not the
\* arrival of a signal is taken whenever one is possible.  Ctrl+C is left to
\* the user and may never come.
ProgramStep ==
    \/ ParseSpeed
    \/ ParseDuration
    \/ StartLoop
    \/ CheckDuration
    \/ SetLightColor
    \/ PrintColor
    \/ Sleep
SpecFair == Init /\ [][Next]_vars /\ WF_vars(ProgramStep)

InitColorName == LoopIdle /\ ColorInit /\ AgoIdle /\ SensorIdle /\ PushIdle /\ LightsIdle
SpecColorName == InitColorName /\ [][CallGetColorName]_vars

InitTimeAgo == LoopIdle /\ ColorIdle /\ AgoInit /\ SensorIdle /\ PushIdle /\ LightsIdle
SpecTimeAgo == InitTimeAgo /\ [][CallGetTimeAgo]_vars

InitSensors == LoopIdle /\ ColorIdle /\ AgoIdle /\ SensorInit /\ PushIdle /\ LightsIdle
SpecSensors == InitSensors /\ [][SensorNext]_vars

InitPush == LoopIdle /\ ColorIdle /\ AgoIdle /\ SensorIdle /\ PushInit /\ LightsIdle
SpecPush == InitPush /\ [][PushNext]_vars

InitLights == LoopIdle /\ ColorIdle /\ AgoIdle /\ SensorIdle /\ PushIdle /\ LightsInit
SpecLights == InitLights /\ [][LightsNext]_vars

(***************************************************************************)
(* Claims about get_color_name, checked under SpecColorName.               *)
(***************************************************************************)
\* C5: for every hue h in [0,65535) get_color_name(h) is one of the 8 labels;
\* the bands [0,3000), [3000,8000), [8000,16000), [16000,30000), [30000,40000),
\* [40000,48000), [48000,54000), [54000,65535) are contiguous and partition the
\* range, h lying in exactly one of them, whose label is the one returned; and
\* the label is a monotonic step function of h that changes exactly at 3000,
\* 8000, 16000, 30000, 40000, 48000 and 54000.
C5_ColorBands ==
    gcn_ret # None =>
        LET h == gcn_hue
            name == Val(gcn_ret)
            T == <<0, 3000, 8000, 16000, 30000, 40000, 48000, 54000, 65535>>
            N == <<"Red", "Orange", "Yellow", "Green", "Cyan", "Blue", "Purple", "Pink">>
            Band(x) == CHOOSE i \in 1..8 : N[i] = x
            In(i) == T[i] <= h /\ h < T[i + 1]
        IN  /\ 0 <= h /\ h < 65535
            /\ name \in {N[i] : i \in 1..8}
            /\ Cardinality({i \in 1..8 : In(i)}) = 1
            /\ \A i \in 1..8 : In(i) => name = N[i]
            /\ h > 0 =>
                  LET before == get_color_name(h - 1) IN
                  /\ before \in {N[i] : i \in 1..8}
                  /\ Band(before) <= Band(name)
                  /\ (before # name) <=> (h \in {T[i] : i \in 2..8})
            /\ (h = 0 \/ h = 2999) => name = "Red"
            /\ h = 3000 => name = "Orange"
            /\ h = 65534 => name = "Pink"

\* C5's case: the call on the threshold 3000 has returned the second band.
C5_Witness == gcn_hue = 3000 /\ gcn_ret = Some("Orange")

(***************************************************************************)
(* Claims about get_time_ago, checked under SpecTimeAgo.                   *)
(***************************************************************************)
\* C6: for a well-formed timestamp whose elapsed time to now is s whole
\* seconds, get_time_ago returns "<s> seconds ago" when s < 60,
\* "<s div 60> minute(s) ago" when 60 <= s < 3600, "<s div 3600> hour(s) ago"
\* when 3600 <= s < 86400 and "<s div 86400> day(s) ago" otherwise, the unit
\* singular exactly when the count is 1 (0 -> "0 seconds ago", 59 ->
\* "59 seconds ago", 60 and 119 -> "1 minute ago", 120 -> "2 minutes ago",
\* 3600 -> "1 hour ago", 86400 -> "1 day ago"); "none" and the empty string
\* give "Never".
C6_TimeAgoLabels ==
    time_ago # None =>
        LET got == Val(time_ago)
            Unit(n, u) == ToString(n) \o " " \o u \o (IF n = 1 THEN "" ELSE "s") \o " ago"
            Expected(s) ==
                IF s < 60 THEN ToString(s) \o " seconds ago"
                ELSE IF s < 3600 THEN Unit(s \div 60, "minute")
                ELSE IF s < 86400 THEN Unit(s \div 3600, "hour")
                ELSE Unit(s \div 86400, "day")
            Example(s) ==
                CASE s = 0 -> "0 seconds ago"
                  [] s = 59 -> "59 seconds ago"
                  [] s \in {60, 119} -> "1 minute ago"
                  [] s = 120 -> "2 minutes ago"
                  [] s = 3600 -> "1 hour ago"
                  [] s = 86400 -> "1 day ago"
                  [] OTHER -> Expected(s)
        IN  /\ ts_elapsed # None =>
                LET tenths == Val(ts_elapsed)
                    s == IF tenths >= 0 THEN tenths \div 10 ELSE -((-tenths) \div 10)
                IN  got = Returned(Expected(s)) /\ got = Returned(Example(s))
            /\ timestamp_str \in {<<"n", "o", "n", "e">>, <<>>} => got = Returned("Never")

\* C6's case: 119.5 seconds after a timestamp written with the Z suffix the
\* call has returned the singular minute.
C6_Witness ==
    /\ ts_elapsed = Some(1195)
    /\ timestamp_str[Len(timestamp_str)] = "Z"
    /\ time_ago = Some(Returned("1 minute ago"))

(***************************************************************************)
(* Claims about list_sensor_activity, checked under SpecSensors.           *)
(***************************************************************************)
\* The number of entries of list whose id is id.
Occurrences(list, id) == Cardinality({k \in 1..Len(list) : list[k].id = id})

\* C7: get_time_ago never raises to its caller: list_sensor_activity is never
\* ended by an exception of it, every sensor printed whose lastupdated is
\* neither the sentinel nor a timestamp that parses is printed with
\* "Error parsing: <raw input>", and when the function is through every sensor
\* that was put in a list has been printed exactly once, the ones after a
\* malformed one included.
C7_ParseErrorIsALabel ==
    /\ sa_fault \in {NoFault, "AttributeError"}
    /\ sa_fault = "AttributeError" => report = <<>>
    /\ \A k \in 1..Len(report) :
        LET raw == SensorData(sensors[report[k].id]).lastupdated IN
        /\ (raw \notin {NONE_STR, <<>>} /\ fromisoformat(ReplaceZ(raw)) = None)
             => report[k].time_ago = "Error parsing: " \o Text(raw)
        /\ raw = <<"g", "a", "r", "b", "a", "g", "e">>
             => report[k].time_ago = "Error parsing: garbage"
    /\ sa_pc = "done" =>
         \A i \in 1..Len(sensors) :
            LET t == sensors[i].type IN
            Occurrences(report, i)
                = IF t \in {Some("Daylight"), Some("CLIPGenericStatus")} THEN 0 ELSE 1

\* C7's case: the first sensor printed has a malformed timestamp and the sensor
\* after it has been printed as well.
C7_Witness ==
    /\ sa_pc = "done"
    /\ Len(report) = 2
    /\ report[1].time_ago = "Error parsing: 2025-13-01T00:00:00"
    /\ report[2].time_ago = "1 minute ago"

\* C8: every sensor record is routed by its declared type to exactly one list:
\* "ZLLPresence" only to motion, "ZLLTemperature" and "ZLLLightLevel" only to
\* temperature/light, "ZLLSwitch" only to switch, "Daylight" and
\* "CLIPGenericStatus" to none, any other type (a missing one, defaulted to
\* "Unknown", included) only to other; no record is in two lists or twice in
\* one, and a record the loop has not reached is in none.
C8_Routing ==
    \A i \in 1..Len(sensors) :
        LET t == IF sensors[i].type = None THEN "Unknown" ELSE Val(sensors[i].type)
            where == <<Occurrences(motion_sensors, i), Occurrences(temperature_sensors, i),
                       Occurrences(dimmer_switches, i), Occurrences(other_sensors, i)>>
        IN  IF i < group_idx
            THEN CASE t = "ZLLPresence" -> where = <<1, 0, 0, 0>>
                   [] t \in {"ZLLTemperature", "ZLLLightLevel"} -> where = <<0, 1, 0, 0>>
                   [] t = "ZLLSwitch" -> where = <<0, 0, 1, 0>>
                   [] t \in {"Daylight", "CLIPGenericStatus"} -> where = <<0, 0, 0, 0>>
                   [] OTHER -> where = <<0, 0, 0, 1>>
            ELSE where = <<0, 0, 0, 0>>

\* C8's case: a "Daylight" record and a record without a type have been
\* grouped; the first is in no list and the second, as "Unknown", in other.
C8_Witness ==
    /\ sa_pc = "done"
    /\ Len(sensors) = 2
    /\ sensors[1].type = Some("Daylight") /\ sensors[2].type = None
    /\ motion_sensors = <<>> /\ temperature_sensors = <<>> /\ dimmer_switches = <<>>
    /\ Len(other_sensors) = 1 /\ other_sensors[1].id = 2 /\ other_sensors[1].type = "Unknown"

(***************************************************************************)
(* Claims about the configuration pushers, checked under SpecPush.         *)
(***************************************************************************)
\* What a pusher has printed once its if/else is through: nothing before.
PushReported == push_pc = "done" \/ (push_pc = "aborted" /\ push_fault = "JSONDecodeError")

\* C10 as stated: each pusher issues exactly one PUT and never retries; it
\* reports success exactly when the status is 200 and otherwise reports an
\* error with the status code and the response body.
C10_OnePutReportedInFull ==
    /\ puts <= 1
    /\ push_pc # "put" => puts = 1
    /\ PushReported =>
        LET r == Val(response) IN
        /\ ([kind |-> "success"] \in {push_out[k] : k \in 1..Len(push_out)}) <=> (r.status = 200)
        /\ r.status # 200 =>
             push_out = <<[kind |-> "error", status |-> r.status, text_len |-> r.body_len]>>

\* C10 as amended: as above, the body printed by simplify_office_v2 being at
\* most its first 500 characters.
C10_OnePutReported ==
    /\ puts <= 1
    /\ push_pc # "put" => puts = 1
    /\ PushReported =>
        LET r == Val(response)
            shown == IF script = "simplify_office_v2" /\ r.body_len > 500
                     THEN 500 ELSE r.body_len
        IN
        /\ ([kind |-> "success"] \in {push_out[k] : k \in 1..Len(push_out)}) <=> (r.status = 200)
        /\ r.status # 200 =>
             push_out = <<[kind |-> "error", status |-> r.status, text_len |-> shown]>>

\* C10's case: simplify_office_v2 got a 404 with a body of 501 characters and
\* printed the status and 500 characters after its one PUT.
C10_Witness ==
    /\ script = "simplify_office_v2" /\ push_pc = "done" /\ puts = 1
    /\ Val(response).status = 404 /\ Val(response).body_len = 501
    /\ push_out = <<[kind |-> "error", status |-> 404, text_len |-> 500]>>

(***************************************************************************)
(* Claims about lounge_color_loop.py, checked under Spec.                  *)
(***************************************************************************)
\* color_loop has been entered with the values __main__ parsed.
LoopStarted ==
    \/ pc \in InTry \cup {"finished", "stopped"}
    \/ pc = "aborted" /\ fault \in {"http", "sleep"}

\* C1: an explicitly supplied non-positive duration (0 or negative) stops the
\* loop at the first elapsed-time check, so no state-update request is ever
\* issued.
C1_NonPositiveDurationSendsNothing ==
    (LoopStarted /\ duration_seconds # None /\ Val(duration_seconds) <= 0) => nreq = 0

\* C2: a failed HTTP state update for one light does not abort the loop: the
\* process is never ended by the exception of a request.
C2_HttpFailureDoesNotAbort ==
    http_failed => ~(pc = "aborted" /\ fault = "http")

\* C3: a KeyboardInterrupt delivered anywhere in the running loop (at the check,
\* between the updates of two lights, at the print, during the sleep) stops it
\* cleanly: the handler runs and the process does not fault, the interrupt
\* itself issues no request, and once it has been delivered no request is
\* issued again and every light keeps the last hue sent to it.
C3_InterruptStopsCleanly ==
    [][ /\ (pc \in InTry /\ ~signal /\ signal')
            => /\ pc' = "stopped"
               /\ fault' = NoFault
               /\ {MsgStopped, MsgRemain} \subseteq out'
               /\ nreq' = nreq /\ last_req' = last_req /\ sent' = sent
        /\ signal => (nreq' = nreq /\ last_req' = last_req /\ sent' = sent)
      ]_vars

\* C3's case: the interrupt arrived between the updates of the two lights of a
\* later tick, so light 9 holds the tick's hue and light 12 the one before.
C3_Witness ==
    /\ pc = "stopped" /\ signal
    /\ ticks >= 1
    /\ sent[9] = Some(hue)
    /\ sent[12] # Some(hue) /\ sent[12] # None

\* C4: the hue counter starts at 0, each completed tick replaces h by
\* (h + 5000) mod 65535 and nothing else changes it, 0 <= h < 65535 in every
\* state, every request carries the hue of its tick, and when the for loop of a
\* tick is through every light of LOUNGE_COLOR_LIGHTS has been sent that hue.
C4_HueCounter ==
    [][ /\ 0 <= hue /\ hue < 65535 /\ 0 <= hue' /\ hue' < 65535
        /\ (pc = "start" /\ pc' = "check") => hue' = 0
        /\ (ticks' = ticks + 1) => hue' = (hue + 5000) % 65535
        /\ (ticks' = ticks /\ pc # "start") => hue' = hue
        /\ (nreq' = nreq + 1)
            => /\ Val(last_req').hue = hue
               /\ Val(last_req').light = LOUNGE_COLOR_LIGHTS[light_idx]
        /\ (pc' = "print") => \A l \in {9, 12} : sent'[l] = Some(hue')
      ]_vars

\* C4's case: fourteen ticks are through and the counter has wrapped
\* (14 * 5000 = 70000 = 65535 + 4465).
C4_Witness == ticks >= 14 /\ hue = (5000 * ticks) % 65535 /\ hue < 5000 /\ nreq = 2 * ticks

\* C9: an argument that does not parse never ends the process: a bad speed
\* leaves speed at the default 2 seconds and prints its warning, a bad duration
\* leaves duration absent and prints its warning, each whatever the other
\* argument is (a good one takes its value and prints no warning), and
\* color_loop is entered with exactly these values.
C9_InvalidArgsFallBack ==
    LET speedDone == pc # "parse_speed" /\ fault # "interrupt"
        durationDone == pc \notin {"parse_speed", "parse_duration"} /\ fault # "interrupt"
    IN
    /\ (speedDone /\ Len(argv) >= 1)
        => IF FloatParses(argv[1])
           THEN speed = FloatTenths(argv[1]) /\ MsgBadSpeed \notin out
           ELSE speed = Seconds(2) /\ MsgBadSpeed \in out
    /\ (durationDone /\ Len(argv) >= 2)
        => IF IntParses(argv[2])
           THEN duration = Some(IntValue(argv[2])) /\ MsgBadDuration \notin out
           ELSE duration = None /\ MsgBadDuration \in out
    /\ (speedDone /\ Len(argv) = 0) => speed = Seconds(2) /\ MsgBadSpeed \notin out
    /\ (durationDone /\ Len(argv) < 2) => duration = None /\ MsgBadDuration \notin out
    /\ LoopStarted => duration_seconds = duration /\ loop_speed = speed
    /\ fault \in {NoFault, "http", "sleep", "interrupt"}

\* C9's case: both arguments are unparseable ("fast" and "x"), both warnings are
\* printed, and the loop runs at the default speed with no duration.
C9_Witness ==
    /\ argv = << <<"f", "a", "s", "t">>, <<"x">> >>
    /\ {MsgBadSpeed, MsgBadDuration} \subseteq out
    /\ loop_speed = 20 /\ duration_seconds = None
    /\ pc = "check" /\ ticks = 2 /\ clock - start_time >= 40

(***************************************************************************)
(* Claim about the termination of color_loop, checked under SpecFair.      *)
(***************************************************************************)
\* color_loop runs with a positive duration and a positive per-step delay.
PositiveRun ==
    /\ duration_seconds # None /\ Val(duration_seconds) > 0
    /\ loop_speed > 0

\* No request has raised, time.sleep has not raised, no Ctrl+C has arrived.
Undisturbed == fault = NoFault /\ ~signal

\* C12: with a positive duration d and a positive per-step delay, every
\* request returning, color_loop eventually ends through the duration check;
\* the first check never stops it, so at least one full tick comes first; it
\* stops only at a check at the start of a tick where the elapsed time is
\* strictly greater than d; and whenever a check is made every tick begun so
\* far has sent the tick's hue to every light.
C12_TerminatesThroughCheck ==
    /\ (pc = "check" /\ ticks = 0 /\ PositiveRun) ~>
            (pc = "finished" \/ ~Undisturbed)
    /\ [][(PositiveRun /\ pc # "finished" /\ pc' = "finished") =>
            /\ pc = "check"
            /\ ticks >= 1
            /\ (clock - start_time) > Seconds(Val(duration_seconds))
            /\ UNCHANGED <<clock, ticks, nreq, sent, hue>>]_vars
    /\ []((PositiveRun /\ pc \in {"check", "finished"}) =>
            /\ nreq = Len(LOUNGE_COLOR_LIGHTS) * ticks
            /\ ticks >= 1 =>
                  \A i \in 1..Len(LOUNGE_COLOR_LIGHTS) :
                      LET light == LOUNGE_COLOR_LIGHTS[i] IN
                      sent[light] # None /\ next_hue(Val(sent[light])) = hue)
    /\ [][(PositiveRun /\ pc' = "check") => pc \in {"start", "sleep"}]_vars

C12_Witness ==
    /\ pc = "finished" /\ PositiveRun /\ Undisturbed
    /\ ticks >= 2
    /\ nreq = Len(LOUNGE_COLOR_LIGHTS) * ticks
    /\ (clock - start_time) > Seconds(Val(duration_seconds))

(***************************************************************************)
(* Claim about list_lights.py, checked under SpecLights.                   *)
(***************************************************************************)
LightsEnded == ll_pc \in {"done", "aborted"}

\* C11: run with the single argument "create", list_lights.py calls
\* create_user, which issues the POST /api request, and never uses the
\* argument as the username of a GET /api/<username>/lights request.
C11_CreateProvisionsUser ==
    ll_argv = <<CREATE>> =>
        /\ \A i \in 1..Len(gets) : gets[i] # CREATE
        /\ LightsEnded => posts = 1

====
